---- MODULE Spec2Model ----
(***************************************************************************)
(* Model of starlark-rust's parameter specification and argument binding   *)
(* (starlark/src/eval/runtime/params/spec.rs): ParametersSpecBuilder,      *)
(* ParametersSpec and its collect / can_fill_with_args operations.         *)
(*                                                                         *)
(* Indices are 0-based as in the source; a Rust slice x is a TLA+ sequence *)
(* and x[i] of the source is x[i + 1] here.                                *)
(***************************************************************************)
EXTENDS Integers, Sequences, FiniteSets, TLC

VARIABLES
    builder,    \* the ParametersSpecBuilder (None once finish() consumed it)
    phase,      \* "building" | "panicked" | "finished" | "bound" |
                \* "rendered" | "documented" | "collected"
    spec,       \* Option<ParametersSpec>: set by finish()
    call,       \* Option<Arguments>: the arguments of the bind in progress
                \* (or the arguments of documentation(), or the arguments
                \* and the slots handed to collect())
    res         \* Option<outcome of collect> for `call` (or the outcome of
                \* parameters_str() / documentation())

vars == <<builder, phase, spec, call, res>>

----------------------------------------------------------------------------
(* Bounds of the model *)

\* Largest number of parameters (sinks included) the builder is given.
MaxParams == 2
\* Largest total number of argument values of one call, over its four channels.
MaxArgs == 3

\* Largest total number of argument values of a call that binds into slots
\* the caller has used before.
MaxFrameArgs == 2
\* Largest number of slots the caller's array holds beyond the N of the
\* signature.
MaxExtra == 1

\* Parameter names the builder is given.
ParamNames == {"a", "b"}
\* Names a call site uses for named arguments and **kwargs keys.
CallNames == {"a", "b", "c"}

----------------------------------------------------------------------------
(* Option<T> *)

None == <<>>
Some(x) == <<x>>
IsSome(o) == o # <<>>
Unwrap(o) == o[1]

Min(x, y) == IF x <= y THEN x ELSE y

----------------------------------------------------------------------------
(* Values.  A Value is opaque to the binder; every argument value of a call *)
(* is a distinct atom that records the channel it arrived through.          *)

Atom(tag, n) == [tag |-> tag, n |-> n, items |-> <<>>]

\* heap.alloc_tuple(&star_args)
alloc_tuple(xs) == [tag |-> "tuple", n |-> 0, items |-> xs]

\* heap.alloc(Dict): the entries in insertion order
alloc_dict(entries) == [tag |-> "dict", n |-> 0, items |-> entries]

----------------------------------------------------------------------------
(* ParameterKind<V> *)

Required == [kind |-> "Required", val |-> None]
Optional == [kind |-> "Optional", val |-> None]
Defaulted(v) == [kind |-> "Defaulted", val |-> Some(v)]
Args == [kind |-> "Args", val |-> None]
KWargs == [kind |-> "KWargs", val |-> None]

(* CurrentParameterStyle, with the order derive(PartialOrd) gives it *)
PosOnly == 0
PosOrNamed == 1
NamedOnly == 2
NoMore == 3

----------------------------------------------------------------------------
(* SymbolMap<u32>: a function from names to indices *)

EmptyMap == [n \in {} |-> 0]

\* SymbolMap::insert: the previous value of the key, and the updated map
SymbolMapInsert(m, name, i) ==
    [old |-> IF name \in DOMAIN m THEN Some(m[name]) ELSE None,
     map |-> [n \in (DOMAIN m) \cup {name} |-> IF n = name THEN i ELSE m[n]]]

\* SymbolMap::get_str / get_hashed_str / get_hashed_string_value
SymbolMapGet(m, name) == IF name \in DOMAIN m THEN Some(m[name]) ELSE None

----------------------------------------------------------------------------
(* ParametersSpecBuilder.  Every operation returns [panic, b]: a failed     *)
(* assert! aborts the operation (panic = TRUE), otherwise b is the builder  *)
(* after it.                                                                *)

\* ParametersSpec::with_capacity
with_capacity ==
    [params |-> <<>>,
     names |-> EmptyMap,
     positional_only |-> 0,
     positional |-> 0,
     current_style |-> PosOnly,
     args |-> None,
     kwargs |-> None]

Panic(b) == [panic |-> TRUE, b |-> b]
Done(b) == [panic |-> FALSE, b |-> b]

\* Variant of add that records the name in the name map in every style
add_naming_positional_only(b, name, val) ==
    IF val.kind \in {"Args", "KWargs"} THEN Panic(b)
    ELSE IF ~(b.current_style < NoMore) THEN Panic(b)
    ELSE IF ~(b.kwargs = None) THEN Panic(b)
    ELSE
      LET i == Len(b.params)
          b1 == [b EXCEPT !.params = Append(@, [name |-> name, kind |-> val])]
          ins == SymbolMapInsert(b1.names, name, i)
          b2 == [b1 EXCEPT !.names = ins.map]
          b3 == IF b2.args = None /\ b2.current_style # NamedOnly
                THEN [b2 EXCEPT !.positional = i + 1,
                                !.positional_only =
                                    IF b2.current_style = PosOnly THEN i + 1 ELSE @]
                ELSE b2
      IN IF ~(ins.old = None) THEN Panic(b) ELSE Done(b3)

\* Variant of add that accepts a regular parameter after **kwargs
add_after_kwargs(b, name, val) ==
    IF val.kind \in {"Args", "KWargs"} THEN Panic(b)
    ELSE
      LET i == Len(b.params)
          b1 == [b EXCEPT !.params = Append(@, [name |-> name, kind |-> val])]
          ins == SymbolMapInsert(b1.names, name, i)
          named == b1.current_style # PosOnly
          b2 == IF named THEN [b1 EXCEPT !.names = ins.map] ELSE b1
          b3 == IF b2.args = None /\ b2.current_style # NamedOnly
                THEN [b2 EXCEPT !.positional = i + 1,
                                !.positional_only =
                                    IF b2.current_style = PosOnly THEN i + 1 ELSE @]
                ELSE b2
      IN IF named /\ ~(ins.old = None) THEN Panic(b) ELSE Done(b3)

\* Variant of add without the "Repeated parameter" assertion
add_without_repeated_check(b, name, val) ==
    IF val.kind \in {"Args", "KWargs"} THEN Panic(b)
    ELSE IF ~(b.current_style < NoMore) THEN Panic(b)
    ELSE IF ~(b.kwargs = None) THEN Panic(b)
    ELSE
      LET i == Len(b.params)
          b1 == [b EXCEPT !.params = Append(@, [name |-> name, kind |-> val])]
          ins == SymbolMapInsert(b1.names, name, i)
          b2 == IF b1.current_style # PosOnly
                THEN [b1 EXCEPT !.names = ins.map] ELSE b1
          b3 == IF b2.args = None /\ b2.current_style # NamedOnly
                THEN [b2 EXCEPT !.positional = i + 1,
                                !.positional_only =
                                    IF b2.current_style = PosOnly THEN i + 1 ELSE @]
                ELSE b2
      IN Done(b3)

\* ParametersSpecBuilder::add
add(b, name, val) ==
    IF val.kind \in {"Args", "KWargs"} THEN Panic(b)
    ELSE IF ~(b.current_style < NoMore) THEN Panic(b)
    ELSE IF ~(b.kwargs = None) THEN Panic(b)
    ELSE
      LET i == Len(b.params)
          b1 == [b EXCEPT !.params = Append(@, [name |-> name, kind |-> val])]
          ins == SymbolMapInsert(b1.names, name, i)
          named == b1.current_style # PosOnly
          b2 == IF named THEN [b1 EXCEPT !.names = ins.map] ELSE b1
          b3 == IF b2.args = None /\ b2.current_style # NamedOnly
                THEN [b2 EXCEPT !.positional = i + 1,
                                !.positional_only =
                                    IF b2.current_style = PosOnly THEN i + 1 ELSE @]
                ELSE b2
      IN IF named /\ ~(ins.old = None) THEN Panic(b) ELSE Done(b3)

\* ParametersSpecBuilder::required
required(b, name) == add(b, name, Required)

\* ParametersSpecBuilder::optional
optional(b, name) == add(b, name, Optional)

\* ParametersSpecBuilder::defaulted
defaulted(b, name, val) == add(b, name, Defaulted(val))

\* Variant of args that records the length of params as the index of *args
args_index_off_by_one(b) ==
    IF ~(b.args = None) THEN Panic(b)
    ELSE IF ~(b.current_style < NamedOnly) THEN Panic(b)
    ELSE IF ~(b.kwargs = None) THEN Panic(b)
    ELSE
      LET b1 == [b EXCEPT !.params = Append(@, [name |-> "*args", kind |-> Args])]
      IN Done([b1 EXCEPT !.args = Some(Len(b1.params)),
                         !.current_style = NamedOnly])

\* ParametersSpecBuilder::args
args(b) ==
    IF ~(b.args = None) THEN Panic(b)
    ELSE IF ~(b.current_style < NamedOnly) THEN Panic(b)
    ELSE IF ~(b.kwargs = None) THEN Panic(b)
    ELSE
      LET b1 == [b EXCEPT !.params = Append(@, [name |-> "*args", kind |-> Args])]
      IN Done([b1 EXCEPT !.args = Some(Len(b1.params) - 1),
                         !.current_style = NamedOnly])

\* Variant of no_more_positional_only_args without its assertion
no_more_positional_only_args_without_assert(b) ==
    Done([b EXCEPT !.current_style = PosOrNamed])

\* ParametersSpecBuilder::no_more_positional_only_args
no_more_positional_only_args(b) ==
    IF ~(b.current_style = PosOnly) THEN Panic(b)
    ELSE Done([b EXCEPT !.current_style = PosOrNamed])

\* ParametersSpecBuilder::no_more_positional_args
no_more_positional_args(b) ==
    IF ~(b.args = None) THEN Panic(b)
    ELSE IF ~(b.current_style < NamedOnly) THEN Panic(b)
    ELSE IF ~(b.kwargs = None) THEN Panic(b)
    ELSE Done([b EXCEPT !.current_style = NamedOnly])

\* Variant of kwargs without the assertion that **kwargs was not added yet
kwargs_without_assert(b) ==
    LET b1 == [b EXCEPT !.params = Append(@, [name |-> "**kwargs", kind |-> KWargs])]
    IN Done([b1 EXCEPT !.current_style = NoMore,
                       !.kwargs = Some(Len(b1.params) - 1)])

\* Variant of kwargs that records the length of params as the index of **kwargs
kwargs_index_off_by_one(b) ==
    IF ~(b.kwargs = None) THEN Panic(b)
    ELSE
      LET b1 == [b EXCEPT !.params = Append(@, [name |-> "**kwargs", kind |-> KWargs])]
      IN Done([b1 EXCEPT !.current_style = NoMore,
                         !.kwargs = Some(Len(b1.params))])

\* ParametersSpecBuilder::kwargs
kwargs(b) ==
    IF ~(b.kwargs = None) THEN Panic(b)
    ELSE
      LET b1 == [b EXCEPT !.params = Append(@, [name |-> "**kwargs", kind |-> KWargs])]
      IN Done([b1 EXCEPT !.current_style = NoMore,
                         !.kwargs = Some(Len(b1.params) - 1)])

\* Variant of finish that exchanges the two positional counts
finish_swapping_counts(b) ==
    IF ~(b.positional_only <= b.positional) THEN [panic |-> TRUE, spec |-> None]
    ELSE [panic |-> FALSE,
          spec |-> Some(
            [param_kinds |-> [i \in 1..Len(b.params) |-> b.params[i].kind],
             param_names |-> [i \in 1..Len(b.params) |-> b.params[i].name],
             names |-> b.names,
             indices |-> [num_positional_only |-> b.positional,
                          num_positional |-> b.positional_only,
                          args |-> b.args,
                          kwargs |-> b.kwargs]])]

\* ParametersSpecBuilder::finish
finish(b) ==
    IF ~(b.positional_only <= b.positional) THEN [panic |-> TRUE, spec |-> None]
    ELSE [panic |-> FALSE,
          spec |-> Some(
            [param_kinds |-> [i \in 1..Len(b.params) |-> b.params[i].kind],
             param_names |-> [i \in 1..Len(b.params) |-> b.params[i].name],
             names |-> b.names,
             indices |-> [num_positional_only |-> b.positional_only,
                          num_positional |-> b.positional,
                          args |-> b.args,
                          kwargs |-> b.kwargs]])]

----------------------------------------------------------------------------
(* Arguments: the four channels of a call.                                  *)
(*   pos    : Seq(Value)                                                    *)
(*   names  : Seq(name)        named : Seq(Value), index-aligned            *)
(*   args   : Option<[iterable, elems]>       the *args splat               *)
(*   kwargs : Option<[isdict, entries]>       the **kwargs splat, entries   *)
(*            [key |-> [isstr, s], val] in the mapping's iteration order    *)

\* FunctionError
Err(kind, name, count, names) ==
    [kind |-> kind, name |-> name, count |-> count, names |-> names]

\* ParametersSpec::len
len(S) == Len(S.param_kinds)

\* ParametersSpec::resolve_name: the index a named argument's token carries
resolve_name(S, name) == SymbolMapGet(S.names, name)

\* usize::MAX, the start value of lowest_name (any number above every index)
UsizeMax == 2147483647

\* The locals of collect_slow, and the caller's slots.  log is the history
\* of slot writes, in order (not part of the program's state).
Locals(slots) ==
    [slots |-> slots,
     star_args |-> <<>>,
     kwargs |-> None,
     next_position |-> 0,
     lowest_name |-> UsizeMax,
     err |-> None,
     log |-> <<>>]

\* slots[i].set(Some(v))
SetSlot(st, i, v) ==
    [st EXCEPT !.slots[i + 1] = Some(v),
               !.log = Append(@, [idx |-> i, val |-> v])]

Fail(st, e) == [st EXCEPT !.err = Some(e)]

\* for (v, s) in args.pos().iter().zip(slots.iter()) { s.set(Some(*v)) }
RECURSIVE zip_set(_, _, _)
zip_set(st, vs, i) ==
    IF vs = <<>> \/ i >= Len(st.slots) THEN st
    ELSE zip_set(SetSlot(st, i, Head(vs)), Tail(vs), i + 1)

\* Variant of fill_positional that fills every slot, not only the positional ones
RECURSIVE fill_positional_up_to_len(_, _, _)
fill_positional_up_to_len(S, st, vs) ==
    IF vs = <<>> THEN st
    ELSE
      LET v == Head(vs)
          st1 == IF st.next_position < Len(S.param_kinds)
                 THEN [SetSlot(st, st.next_position, v)
                         EXCEPT !.next_position = @ + 1]
                 ELSE [st EXCEPT !.star_args = Append(@, v)]
      IN fill_positional_up_to_len(S, st1, Tail(vs))

\* The loop body shared by the positional overflow branch and the *args
\* splat: fill the next positional slot, or push to star_args.
RECURSIVE fill_positional(_, _, _)
fill_positional(S, st, vs) ==
    IF vs = <<>> THEN st
    ELSE
      LET v == Head(vs)
          st1 == IF st.next_position < S.indices.num_positional
                 THEN [SetSlot(st, st.next_position, v)
                         EXCEPT !.next_position = @ + 1]
                 ELSE [st EXCEPT !.star_args = Append(@, v)]
      IN fill_positional(S, st1, Tail(vs))

\* Variant of collect_pos that drops the explicit values no positional slot takes
collect_pos_without_overflow(S, a, st) ==
    [zip_set(st, SubSeq(a.pos, 1, Min(Len(a.pos), S.indices.num_positional)), 0)
        EXCEPT !.next_position = Min(Len(a.pos), S.indices.num_positional)]

\* Variant of collect_pos that zips the explicit values with the slots
\* whatever their number
collect_pos_zip_always(S, a, st) ==
    [zip_set(st, a.pos, 0) EXCEPT !.next_position = Min(Len(a.pos), Len(st.slots))]

\* collect_slow: "First deal with positional parameters"
collect_pos(S, a, st) ==
    IF Len(a.pos) <= S.indices.num_positional
    THEN [zip_set(st, a.pos, 0) EXCEPT !.next_position = Len(a.pos)]
    ELSE fill_positional(S, st, a.pos)

\* SmallMap::insert_hashed: replaces the value of a present key in place
SmallMapInsert(mp, key, val) ==
    IF \E j \in 1..Len(mp) : mp[j].key = key
    THEN [j \in 1..Len(mp) |->
            IF mp[j].key = key THEN [key |-> key, val |-> val] ELSE mp[j]]
    ELSE Append(mp, [key |-> key, val |-> val])

\* LazyKwargs::insert: [kwargs, dup], dup "true if the value is a duplicate"
LazyKwargs_insert(kw, key, val) ==
    IF kw = None
    THEN [kwargs |-> Some(<<[key |-> key, val |-> val]>>), dup |-> FALSE]
    ELSE [kwargs |-> Some(SmallMapInsert(Unwrap(kw), key, val)),
          dup |-> \E j \in 1..Len(Unwrap(kw)) : Unwrap(kw)[j].key = key]

\* LazyKwargs::alloc
LazyKwargs_alloc(kw) ==
    IF IsSome(kw) THEN alloc_dict(Unwrap(kw)) ELSE alloc_dict(<<>>)

\* Variant of named_step that drops a named argument the name map does not hold
named_step_dropping_unknown(S, st, name, v) ==
    LET r == resolve_name(S, name)
    IN IF r = None THEN st
       ELSE [SetSlot(st, Unwrap(r), v)
               EXCEPT !.lowest_name = Min(@, Unwrap(r))]

\* One named argument: the body of the loop over args.names().zip(args.named())
named_step(S, st, name, v) ==
    LET r == resolve_name(S, name)
    IN IF r = None
       THEN [st EXCEPT !.kwargs = LazyKwargs_insert(st.kwargs, name, v).kwargs]
       ELSE [SetSlot(st, Unwrap(r), v)
               EXCEPT !.lowest_name = Min(@, Unwrap(r))]

\* collect_slow: "Next deal with named parameters"
RECURSIVE collect_named(_, _, _, _)
collect_named(S, st, names, named) ==
    IF names = <<>> \/ named = <<>> THEN st
    ELSE collect_named(S, named_step(S, st, Head(names), Head(named)),
                       Tail(names), Tail(named))

\* Variant of collect_star that sends every element of the splat to star_args
collect_star_all_to_sink(S, a, st) ==
    IF a.args = None THEN st
    ELSE IF ~Unwrap(a.args).iterable
         THEN Fail(st, Err("ArgsArrayIsNotIterable", "", 0, <<>>))
         ELSE [st EXCEPT !.star_args = @ \o Unwrap(a.args).elems]

\* collect_slow: "Next up are the *args parameters"
collect_star(S, a, st) ==
    IF a.args = None THEN st
    ELSE IF ~Unwrap(a.args).iterable
         THEN Fail(st, Err("ArgsArrayIsNotIterable", "", 0, <<>>))
         ELSE fill_positional(S, st, Unwrap(a.args).elems)

\* Variant of check_clash that names the last parameter filled by position
check_clash_naming_last_positional(S, st) ==
    IF st.next_position > st.lowest_name
    THEN Fail(st, Err("RepeatedArg", S.param_names[st.next_position], 0, <<>>))
    ELSE st

\* Variant of check_clash that is off by one
check_clash_off_by_one(S, st) ==
    IF st.next_position - 1 > st.lowest_name
    THEN Fail(st, Err("RepeatedArg", S.param_names[st.lowest_name + 1], 0, <<>>))
    ELSE st

\* collect_slow: "Check if the named arguments clashed with the positional arguments"
check_clash(S, st) ==
    IF st.next_position > st.lowest_name
    THEN Fail(st, Err("RepeatedArg", S.param_names[st.lowest_name + 1], 0, <<>>))
    ELSE st

\* Variant of kwargs_step that does not look at the slot it overwrites
kwargs_step_without_slot_check(S, st, k, v) ==
    IF ~k.isstr THEN Fail(st, Err("ArgsValueIsNotString", "", 0, <<>>))
    ELSE
      LET r == SymbolMapGet(S.names, k.s)
          ins == LazyKwargs_insert(st.kwargs, k.s, v)
          st1 == IF r = None THEN [st EXCEPT !.kwargs = ins.kwargs]
                 ELSE SetSlot(st, Unwrap(r), v)
      IN IF r = None /\ ins.dup
         THEN Fail(st1, Err("RepeatedArg", k.s, 0, <<>>))
         ELSE st1

\* One entry of the **kwargs mapping
kwargs_step(S, st, k, v) ==
    IF ~k.isstr THEN Fail(st, Err("ArgsValueIsNotString", "", 0, <<>>))
    ELSE
      LET r == SymbolMapGet(S.names, k.s)
          ins == LazyKwargs_insert(st.kwargs, k.s, v)
          repeat == IF r = None THEN ins.dup
                    ELSE IsSome(st.slots[Unwrap(r) + 1])
          st1 == IF r = None THEN [st EXCEPT !.kwargs = ins.kwargs]
                 ELSE SetSlot(st, Unwrap(r), v)
      IN IF repeat THEN Fail(st1, Err("RepeatedArg", k.s, 0, <<>>)) ELSE st1

RECURSIVE kwargs_loop(_, _, _)
kwargs_loop(S, st, entries) ==
    IF entries = <<>> \/ IsSome(st.err) THEN st
    ELSE kwargs_loop(S, kwargs_step(S, st, Head(entries).key, Head(entries).val),
                     Tail(entries))

\* collect_slow: "Now insert the kwargs, if there are any"
collect_kwargs(S, a, st) ==
    IF a.kwargs = None THEN st
    ELSE IF ~Unwrap(a.kwargs).isdict
         THEN Fail(st, Err("KwArgsIsNotDict", "", 0, <<>>))
         ELSE kwargs_loop(S, st, Unwrap(a.kwargs).entries)

\* Variant of collect_defaults that visits the parameters from the last one
RECURSIVE collect_defaults_from_last(_, _, _)
collect_defaults_from_last(S, st, index) ==
    IF index >= len(S) THEN st
    ELSE
      LET rest == collect_defaults_from_last(S, st, index + 1)
          def == S.param_kinds[index + 1]
      IN IF IsSome(rest.err) \/ IsSome(rest.slots[index + 1]) THEN rest
         ELSE IF def.kind = "Required"
         THEN Fail(rest, Err("MissingParameter", S.param_names[index + 1], 0, <<>>))
         ELSE IF def.kind = "Defaulted"
         THEN SetSlot(rest, index, Unwrap(def.val))
         ELSE rest

\* Variant of collect_defaults that leaves a Defaulted slot empty
RECURSIVE collect_defaults_without_fill(_, _, _)
collect_defaults_without_fill(S, st, index) ==
    IF index >= len(S) THEN st
    ELSE IF IsSome(st.slots[index + 1])
         THEN collect_defaults_without_fill(S, st, index + 1)
    ELSE IF S.param_kinds[index + 1].kind = "Required"
         THEN Fail(st, Err("MissingParameter", S.param_names[index + 1], 0, <<>>))
         ELSE collect_defaults_without_fill(S, st, index + 1)

\* Variant of collect_defaults that writes the default over a supplied value
RECURSIVE collect_defaults_overwriting(_, _, _)
collect_defaults_overwriting(S, st, index) ==
    IF index >= len(S) THEN st
    ELSE
      LET def == S.param_kinds[index + 1]
      IN IF def.kind = "Defaulted"
         THEN collect_defaults_overwriting(
                  S, SetSlot(st, index, Unwrap(def.val)), index + 1)
         ELSE IF IsSome(st.slots[index + 1])
         THEN collect_defaults_overwriting(S, st, index + 1)
         ELSE IF def.kind = "Required"
         THEN Fail(st, Err("MissingParameter", S.param_names[index + 1], 0, <<>>))
         ELSE collect_defaults_overwriting(S, st, index + 1)

\* collect_slow: "set default values and error if any required values are missing"
RECURSIVE collect_defaults(_, _, _)
collect_defaults(S, st, index) ==
    IF index >= len(S) THEN st
    ELSE IF IsSome(st.slots[index + 1]) THEN collect_defaults(S, st, index + 1)
    ELSE
      LET def == S.param_kinds[index + 1]
      IN IF def.kind = "Required"
         THEN Fail(st, Err("MissingParameter", S.param_names[index + 1], 0, <<>>))
         ELSE IF def.kind = "Defaulted"
         THEN collect_defaults(S, SetSlot(st, index, Unwrap(def.val)), index + 1)
         ELSE collect_defaults(S, st, index + 1)

\* collect_slow: the *args sink
finish_args(S, st) ==
    IF IsSome(S.indices.args)
    THEN SetSlot(st, Unwrap(S.indices.args), alloc_tuple(st.star_args))
    ELSE IF st.star_args # <<>>
         THEN Fail(st, Err("ExtraPositionalArg", "", Len(st.star_args), <<>>))
         ELSE st

\* collect_slow: the **kwargs sink
finish_kwargs(S, st) ==
    IF IsSome(S.indices.kwargs)
    THEN SetSlot(st, Unwrap(S.indices.kwargs), LazyKwargs_alloc(st.kwargs))
    ELSE IF IsSome(st.kwargs)
         THEN Fail(st, Err("ExtraNamedArg", "", 0,
                   [j \in 1..Len(Unwrap(st.kwargs)) |-> Unwrap(st.kwargs)[j].key]))
         ELSE st

\* Variant of collect_slow that finalises the sinks before the defaults loop
collect_slow_sinks_first(S, a, slots) ==
    LET s1 == collect_pos(S, a, Locals(slots))
        s2 == collect_named(S, s1, a.names, a.named)
        s3 == collect_star(S, a, s2)
        s4 == IF IsSome(s3.err) THEN s3 ELSE check_clash(S, s3)
        s5 == IF IsSome(s4.err) THEN s4 ELSE collect_kwargs(S, a, s4)
        s6 == IF IsSome(s5.err) THEN s5 ELSE finish_args(S, s5)
        s7 == IF IsSome(s6.err) THEN s6 ELSE finish_kwargs(S, s6)
        s8 == IF IsSome(s7.err) THEN s7 ELSE collect_defaults(S, s7, s7.next_position)
    IN s8

\* ParametersSpec::collect_slow.  A phase that fails returns from the function
\* (`?`, return Err), so the later phases do not run.
collect_slow(S, a, slots) ==
    LET s1 == collect_pos(S, a, Locals(slots))
        s2 == collect_named(S, s1, a.names, a.named)
        s3 == collect_star(S, a, s2)
        s4 == IF IsSome(s3.err) THEN s3 ELSE check_clash(S, s3)
        s5 == IF IsSome(s4.err) THEN s4 ELSE collect_kwargs(S, a, s4)
        s6 == IF IsSome(s5.err) THEN s5 ELSE collect_defaults(S, s5, s5.next_position)
        s7 == IF IsSome(s6.err) THEN s6 ELSE finish_args(S, s6)
        s8 == IF IsSome(s7.err) THEN s7 ELSE finish_kwargs(S, s7)
    IN s8

\* Variant of fast_path without the test pos.len() == param_kinds.len()
fast_path_without_len(S, a) ==
    /\ Len(a.pos) = S.indices.num_positional
    /\ a.named = <<>>
    /\ a.args = None
    /\ a.kwargs = None

\* The condition of the fast path of collect_inline_impl
fast_path(S, a) ==
    /\ Len(a.pos) = S.indices.num_positional
    /\ Len(a.pos) = len(S)
    /\ a.named = <<>>
    /\ a.args = None
    /\ a.kwargs = None

\* ParametersSpec::collect_inline_impl (collect, collect_inline and
\* collect_impl forward to it)
collect_inline_impl(S, a, slots) ==
    IF fast_path(S, a)
    THEN zip_set(Locals(slots), a.pos, 0)
    ELSE collect_slow(S, a, slots)

\* Variant of can_fill_with_args_impl that rejects every positional overflow
can_fill_pos_without_args_sink(S, filled, p, pos) ==
    [ok |-> pos <= S.indices.num_positional,
     filled |-> [i \in 1..len(S) |-> filled[i] \/ i <= pos]]

\* ParametersSpec::can_fill_with_args_impl: the loop over 0..pos
RECURSIVE can_fill_pos(_, _, _, _)
can_fill_pos(S, filled, p, pos) ==
    IF p >= pos THEN [ok |-> TRUE, filled |-> filled]
    ELSE IF p < S.indices.num_positional
         THEN can_fill_pos(S, [filled EXCEPT ![p + 1] = TRUE], p + 1, pos)
         ELSE IF IsSome(S.indices.args)
              THEN can_fill_pos(S, filled, p + 1, pos)
              ELSE [ok |-> FALSE, filled |-> filled]

\* Variant of can_fill_names that does not look at what is filled already
RECURSIVE can_fill_names_without_filled_check(_, _, _)
can_fill_names_without_filled_check(S, filled, names) ==
    IF names = <<>> THEN [ok |-> TRUE, filled |-> filled]
    ELSE
      LET r == SymbolMapGet(S.names, Head(names))
      IN IF IsSome(r)
         THEN can_fill_names_without_filled_check(
                  S, [filled EXCEPT ![Unwrap(r) + 1] = TRUE], Tail(names))
         ELSE IF S.indices.kwargs = None THEN [ok |-> FALSE, filled |-> filled]
              ELSE can_fill_names_without_filled_check(S, filled, Tail(names))

\* ParametersSpec::can_fill_with_args_impl: the loop over names
RECURSIVE can_fill_names(_, _, _)
can_fill_names(S, filled, names) ==
    IF names = <<>> THEN [ok |-> TRUE, filled |-> filled]
    ELSE
      LET r == SymbolMapGet(S.names, Head(names))
      IN IF IsSome(r)
         THEN IF filled[Unwrap(r) + 1] THEN [ok |-> FALSE, filled |-> filled]
              ELSE can_fill_names(S, [filled EXCEPT ![Unwrap(r) + 1] = TRUE],
                                  Tail(names))
         ELSE IF S.indices.kwargs = None THEN [ok |-> FALSE, filled |-> filled]
              ELSE can_fill_names(S, filled, Tail(names))

\* ParametersSpec::can_fill_with_args_impl
can_fill_with_args_impl(S, pos, names) ==
    LET f0 == [i \in 1..len(S) |-> FALSE]
        r1 == can_fill_pos(S, f0, 0, pos)
        r2 == can_fill_names(S, r1.filled, names)
    IN IF ~r1.ok THEN FALSE
       ELSE IF pos > S.indices.num_positional /\ S.indices.args = None THEN FALSE
       ELSE IF ~r2.ok THEN FALSE
       ELSE \A i \in 1..len(S) :
               r2.filled[i] \/ S.param_kinds[i].kind # "Required"

----------------------------------------------------------------------------
(* The calls the model binds *)

\* The keys a **kwargs mapping may hold: strings, and one non-string value
Keys == [isstr : {TRUE}, s : CallNames] \cup {[isstr |-> FALSE, s |-> "1"]}

\* Sequences of n pairwise distinct elements of S
InjSeqs(S, n) ==
    {f \in [1..n -> S] : \A i, j \in 1..n : i # j => f[i] # f[j]}

Values(tag, n) == [i \in 1..n |-> Atom(tag, i)]

\* Arguments with p positional values, named arguments called nm, s elements
\* in the *args splat (star: "none" | "bad" | "seq") and the keys ks in the
\* **kwargs splat (kw: "none" | "bad" | "dict")
Arguments(p, nm, star, s, kw, ks) ==
    [pos |-> Values("pos", p),
     names |-> nm,
     named |-> Values("named", Len(nm)),
     args |-> IF star = "none" THEN None
              ELSE Some([iterable |-> star = "seq", elems |-> Values("star", s)]),
     kwargs |-> IF kw = "none" THEN None
                ELSE Some([isdict |-> kw = "dict",
                           entries |-> [j \in 1..Len(ks) |->
                                          [key |-> ks[j], val |-> Atom("kw", j)]]])]

\* [(); N].map(|_| Cell::new(None)): the caller's slots before a bind
new_slots(n) == [i \in 1..n |-> None]

\* The value defaulted() is given for the parameter at index i
DefaultValue(i) == Atom("default", i)

----------------------------------------------------------------------------
(* The introspection surfaces of ParametersSpec: parameters_str and         *)
(* documentation.  A name is a string; where the code looks inside a name   *)
(* (strip_prefix) the model works on its sequence of characters.            *)

\* Parameter names the builder is given where the signature is rendered
DocNames == {"a", "$a"}

\* str::as_str: the characters of a name
Chars(name) ==
    CASE name = "a" -> <<"a">>
      [] name = "b" -> <<"b">>
      [] name = "c" -> <<"c">>
      [] name = "$a" -> <<"$", "a">>
      [] name = "*args" -> <<"*", "a", "r", "g", "s">>
      [] name = "**kwargs" -> <<"*", "*", "k", "w", "a", "r", "g", "s">>

\* str::strip_prefix
strip_prefix(s, prefix) ==
    IF Len(s) >= Len(prefix) /\ SubSeq(s, 1, Len(prefix)) = prefix
    THEN Some(SubSeq(s, Len(prefix) + 1, Len(s)))
    ELSE None

\* Option::unwrap_or
unwrap_or(o, d) == IF IsSome(o) THEN Unwrap(o) ELSE d

\* parameters_str: the closure pf, the ParamFmt of parameter i
pf(S, i) ==
    LET name == Chars(S.param_names[i + 1])
        name1 == unwrap_or(strip_prefix(name, <<"*", "*">>), name)
        name2 == unwrap_or(strip_prefix(name1, <<"*">>), name1)
    IN [name |-> name2,
        ty |-> None,
        default |-> IF S.param_kinds[i + 1].kind = "Defaulted"
                    THEN Some("...") ELSE None]

\* (lo..hi).map(pf): the ParamFmt of the parameters lo, ..., hi - 1
MapRange(S, lo, hi) ==
    [j \in 1..(IF hi > lo THEN hi - lo ELSE 0) |-> pf(S, lo + j - 1)]

\* Option::map(pf), as a sequence of at most one ParamFmt
MapOption(S, o) == IF IsSome(o) THEN <<pf(S, Unwrap(o))>> ELSE <<>>

\* ParametersSpec::parameters_str: the "<Inconsistent ...>" result (err), or
\* the five arguments it gives fmt_param_spec
parameters_str(S) ==
    IF IsSome(S.indices.args) /\ Unwrap(S.indices.args) # S.indices.num_positional
    THEN [err |-> TRUE, pos_only |-> <<>>, pos_named |-> <<>>, args |-> <<>>,
          named_only |-> <<>>, kwargs |-> <<>>]
    ELSE IF IsSome(S.indices.kwargs) /\ Unwrap(S.indices.kwargs) + 1 # len(S)
    THEN [err |-> TRUE, pos_only |-> <<>>, pos_named |-> <<>>, args |-> <<>>,
          named_only |-> <<>>, kwargs |-> <<>>]
    ELSE [err |-> FALSE,
          pos_only |-> MapRange(S, 0, S.indices.num_positional_only),
          pos_named |-> MapRange(S, S.indices.num_positional_only,
                                 S.indices.num_positional),
          args |-> MapOption(S, S.indices.args),
          named_only |-> MapRange(S,
                                  IF IsSome(S.indices.args)
                                  THEN Unwrap(S.indices.args) + 1
                                  ELSE S.indices.num_positional,
                                  unwrap_or(S.indices.kwargs, len(S))),
          kwargs |-> MapOption(S, S.indices.kwargs)]

\* lo..hi: the indices lo, ..., hi - 1
Range(lo, hi) == [j \in 1..(IF hi > lo THEN hi - lo ELSE 0) |-> lo + j - 1]

\* ParametersSpec::parameters_str: the indices of the five groups it maps pf
\* over
parameters_str_indices(S) ==
    [pos_only |-> Range(0, S.indices.num_positional_only),
     pos_named |-> Range(S.indices.num_positional_only, S.indices.num_positional),
     args |-> IF IsSome(S.indices.args) THEN <<Unwrap(S.indices.args)>> ELSE <<>>,
     named_only |-> Range(IF IsSome(S.indices.args)
                          THEN Unwrap(S.indices.args) + 1
                          ELSE S.indices.num_positional,
                          unwrap_or(S.indices.kwargs, len(S))),
     kwargs |-> IF IsSome(S.indices.kwargs) THEN <<Unwrap(S.indices.kwargs)>> ELSE <<>>]

\* Ty: the type given for parameter i
Ty(i) == [ty |-> i]

\* DocString: the documentation given for a name
DocString(name) == [doc |-> name]

\* DocParam
DocParam(kind, name, docs, typ, default_value) ==
    [kind |-> kind, name |-> name, docs |-> docs, typ |-> typ,
     default_value |-> default_value]
OnlyPosBefore == DocParam("OnlyPosBefore", "", None, None, None)
OnlyNamedAfter == DocParam("OnlyNamedAfter", "", None, None, None)

\* HashMap::remove(name).flatten(), and the map without the name
DocsRemove(docs, name) ==
    [docs |-> IF name \in DOMAIN docs THEN docs[name] ELSE None,
     rest |-> [n \in (DOMAIN docs) \ {name} |-> docs[n]]]

\* Value::to_repr of a default value
to_repr(v) == [repr |-> v]

\* Variant of doc_entries that adds the `/` entry also before parameter 0
RECURSIVE doc_entries_slash_at_zero(_, _, _, _)
doc_entries_slash_at_zero(S, i, types, docs) ==
    IF i >= len(S) \/ i >= Len(types) THEN <<>>
    ELSE
      LET name == S.param_names[i + 1]
          kind == S.param_kinds[i + 1]
          typ == types[i + 1]
          d == DocsRemove(docs, name)
          only_pos_before ==
              IF i = S.indices.num_positional_only
              THEN <<OnlyPosBefore>> ELSE <<>>
          only_named_after ==
              IF kind.kind \in {"Args", "KWargs"} THEN <<>>
              ELSE IF i = S.indices.num_positional
                   THEN <<OnlyNamedAfter>> ELSE <<>>
          doc_param ==
              DocParam(IF kind.kind = "Args" THEN "Args"
                       ELSE IF kind.kind = "KWargs" THEN "Kwargs" ELSE "Arg",
                       name, d.docs, typ,
                       IF kind.kind = "Optional" THEN Some("_")
                       ELSE IF kind.kind = "Defaulted"
                            THEN Some(to_repr(Unwrap(kind.val))) ELSE None)
      IN only_pos_before \o only_named_after \o <<doc_param>>
           \o doc_entries_slash_at_zero(S, i + 1, types, d.rest)

\* Variant of doc_entries that puts the `*` entry before the `/` entry
RECURSIVE doc_entries_star_before_slash(_, _, _, _)
doc_entries_star_before_slash(S, i, types, docs) ==
    IF i >= len(S) \/ i >= Len(types) THEN <<>>
    ELSE
      LET name == S.param_names[i + 1]
          kind == S.param_kinds[i + 1]
          typ == types[i + 1]
          d == DocsRemove(docs, name)
          only_pos_before ==
              IF i # 0 /\ i = S.indices.num_positional_only
              THEN <<OnlyPosBefore>> ELSE <<>>
          only_named_after ==
              IF kind.kind \in {"Args", "KWargs"} THEN <<>>
              ELSE IF i = S.indices.num_positional
                   THEN <<OnlyNamedAfter>> ELSE <<>>
          doc_param ==
              DocParam(IF kind.kind = "Args" THEN "Args"
                       ELSE IF kind.kind = "KWargs" THEN "Kwargs" ELSE "Arg",
                       name, d.docs, typ,
                       IF kind.kind = "Optional" THEN Some("_")
                       ELSE IF kind.kind = "Defaulted"
                            THEN Some(to_repr(Unwrap(kind.val))) ELSE None)
      IN only_named_after \o only_pos_before \o <<doc_param>>
           \o doc_entries_star_before_slash(S, i + 1, types, d.rest)

\* documentation_impl: the flat_map over iter_params().enumerate()
\* .zip(parameter_types), from parameter i on
RECURSIVE doc_entries(_, _, _, _)
doc_entries(S, i, types, docs) ==
    IF i >= len(S) \/ i >= Len(types) THEN <<>>
    ELSE
      LET name == S.param_names[i + 1]
          kind == S.param_kinds[i + 1]
          typ == types[i + 1]
          d == DocsRemove(docs, name)
          only_pos_before ==
              IF i # 0 /\ i = S.indices.num_positional_only
              THEN <<OnlyPosBefore>> ELSE <<>>
          only_named_after ==
              IF kind.kind \in {"Args", "KWargs"} THEN <<>>
              ELSE IF i = S.indices.num_positional
                   THEN <<OnlyNamedAfter>> ELSE <<>>
          doc_param ==
              CASE kind.kind = "Required" -> DocParam("Arg", name, d.docs, typ, None)
                [] kind.kind = "Optional" ->
                       DocParam("Arg", name, d.docs, typ, Some("_"))
                [] kind.kind = "Defaulted" ->
                       DocParam("Arg", name, d.docs, typ,
                                Some(to_repr(Unwrap(kind.val))))
                [] kind.kind = "Args" -> DocParam("Args", name, d.docs, typ, None)
                [] kind.kind = "KWargs" -> DocParam("Kwargs", name, d.docs, typ, None)
      IN only_pos_before \o only_named_after \o <<doc_param>>
           \o doc_entries(S, i + 1, types, d.rest)

\* Variant of documentation_impl that adds the last `/` whenever there is a
\* positional-only parameter
documentation_impl_last_slash_always(S, parameter_types, parameter_docs) ==
    IF len(S) # Len(parameter_types) THEN [panic |-> TRUE, params |-> <<>>]
    ELSE [panic |-> FALSE,
          params |-> doc_entries(S, 0, parameter_types, parameter_docs)
                       \o (IF S.indices.num_positional_only # 0
                           THEN <<OnlyPosBefore>> ELSE <<>>)]

\* ParametersSpec::documentation_impl: [panic, params]
documentation_impl(S, parameter_types, parameter_docs) ==
    IF len(S) # Len(parameter_types) THEN [panic |-> TRUE, params |-> <<>>]
    ELSE [panic |-> FALSE,
          params |-> doc_entries(S, 0, parameter_types, parameter_docs)
                       \o (IF S.indices.num_positional_only = len(S) /\ len(S) # 0
                           THEN <<OnlyPosBefore>> ELSE <<>>)]

----------------------------------------------------------------------------
(* Actions *)

Init ==
    /\ builder = with_capacity
    /\ phase = "building"
    /\ spec = None
    /\ call = None
    /\ res = None

\* A builder operation with outcome r
BuilderStep(r) ==
    /\ builder' = r.b
    /\ phase' = IF r.panic THEN "panicked" ELSE "building"
    /\ UNCHANGED <<spec, call, res>>

CanAdd == phase = "building" /\ Len(builder.params) < MaxParams

CallRequired(name) == CanAdd /\ BuilderStep(required(builder, name))

CallOptional(name) == CanAdd /\ BuilderStep(optional(builder, name))

CallDefaulted(name) ==
    CanAdd /\ BuilderStep(defaulted(builder, name, DefaultValue(Len(builder.params))))

CallArgs == CanAdd /\ BuilderStep(args(builder))

CallKwargs == CanAdd /\ BuilderStep(kwargs(builder))

CallNoMorePositionalOnlyArgs ==
    phase = "building" /\ BuilderStep(no_more_positional_only_args(builder))

CallNoMorePositionalArgs ==
    phase = "building" /\ BuilderStep(no_more_positional_args(builder))

CallFinish ==
    /\ phase = "building"
    /\ LET r == finish(builder)
       IN /\ phase' = IF r.panic THEN "panicked" ELSE "finished"
          /\ spec' = r.spec
          \* finish(self) consumes the builder
          /\ builder' = IF r.panic THEN builder ELSE None
    /\ UNCHANGED <<call, res>>

\* collect(args, slots, heap) on fresh slots
Bind(a) ==
    /\ call' = Some(a)
    /\ res' = Some(collect_inline_impl(Unwrap(spec), a, new_slots(len(Unwrap(spec)))))
    /\ phase' = "bound"
    /\ UNCHANGED <<builder, spec>>

\* A caller hands some call's arguments to the finished signature
Collect ==
    /\ phase = "finished"
    /\ \E p \in 0..MaxArgs :
         \E n \in 0..(MaxArgs - p) :
           \E nm \in [1..n -> CallNames] :
             \E star \in {"none", "bad", "seq"} :
               \E s \in 0..(IF star = "seq" THEN MaxArgs - p - n ELSE 0) :
                 \E kw \in {"none", "bad", "dict"} :
                   \E k \in 0..(IF kw = "dict" THEN MaxArgs - p - n - s ELSE 0) :
                     \E ks \in InjSeqs(Keys, k) :
                       Bind(Arguments(p, nm, star, s, kw, ks))

\* The bind returns to its caller; the signature can be bound again
Return ==
    /\ phase = "bound"
    /\ phase' = "finished"
    /\ call' = None
    /\ res' = None
    /\ UNCHANGED <<builder, spec>>

Next ==
    \/ \E name \in ParamNames : CallRequired(name)
    \/ \E name \in ParamNames : CallOptional(name)
    \/ \E name \in ParamNames : CallDefaulted(name)
    \/ CallArgs
    \/ CallKwargs
    \/ CallNoMorePositionalOnlyArgs
    \/ CallNoMorePositionalArgs
    \/ CallFinish
    \/ Collect
    \/ Return

Spec == Init /\ [][Next]_vars

----------------------------------------------------------------------------
(* The builder alone: every sequence of its operations up to finish() *)

NextBuild ==
    \/ \E name \in ParamNames : CallRequired(name)
    \/ \E name \in ParamNames : CallOptional(name)
    \/ \E name \in ParamNames : CallDefaulted(name)
    \/ CallArgs
    \/ CallKwargs
    \/ CallNoMorePositionalOnlyArgs
    \/ CallNoMorePositionalArgs
    \/ CallFinish

SpecBuild == Init /\ [][NextBuild]_vars

----------------------------------------------------------------------------
(* A signature bound into a slot array the caller owns: at least N slots    *)
(* (collect_slow asserts it), each empty or holding an earlier value        *)

\* A value a slot holds before the bind
OldValue(i) == Atom("old", i)

\* collect(args, slots, heap) on the caller's slots
BindInto(a, slots) ==
    /\ call' = Some([arguments |-> a, slots |-> slots])
    /\ res' = Some(collect_inline_impl(Unwrap(spec), a, slots))
    /\ phase' = "collected"
    /\ UNCHANGED <<builder, spec>>

CollectInto ==
    /\ phase = "finished"
    /\ \E p \in 0..MaxFrameArgs :
         \E n \in 0..(MaxFrameArgs - p) :
           \E nm \in [1..n -> CallNames] :
             \E star \in {"none", "bad", "seq"} :
               \E s \in 0..(IF star = "seq" THEN MaxFrameArgs - p - n ELSE 0) :
                 \E kw \in {"none", "bad", "dict"} :
                   \E k \in 0..(IF kw = "dict" THEN MaxFrameArgs - p - n - s ELSE 0) :
                     \E ks \in InjSeqs(Keys, k) :
                       \E extra \in 0..MaxExtra :
                         \E old \in [1..(len(Unwrap(spec)) + extra) -> BOOLEAN] :
                           BindInto(Arguments(p, nm, star, s, kw, ks),
                                    [i \in 1..(len(Unwrap(spec)) + extra) |->
                                       IF old[i] THEN Some(OldValue(i - 1)) ELSE None])

NextFrame ==
    \/ \E name \in ParamNames : CallRequired(name)
    \/ \E name \in ParamNames : CallOptional(name)
    \/ \E name \in ParamNames : CallDefaulted(name)
    \/ CallArgs
    \/ CallKwargs
    \/ CallNoMorePositionalOnlyArgs
    \/ CallNoMorePositionalArgs
    \/ CallFinish
    \/ CollectInto

SpecFrame == Init /\ [][NextFrame]_vars

----------------------------------------------------------------------------
(* A signature built from DocNames, then rendered or documented *)

\* parameters_str() on the finished signature
CallParametersStr ==
    /\ phase = "finished"
    /\ call' = None
    /\ res' = Some(parameters_str(Unwrap(spec)))
    /\ phase' = "rendered"
    /\ UNCHANGED <<builder, spec>>

\* documentation(parameter_types, parameter_docs) on the finished signature:
\* one type per parameter (or one too many), and docs for some of the names
CallDocumentation ==
    /\ phase = "finished"
    /\ \E n \in {len(Unwrap(spec)), len(Unwrap(spec)) + 1} :
         \E D \in SUBSET DocNames :
           \E E \in SUBSET D :
             LET types == [i \in 1..n |-> Ty(i - 1)]
                 docs == [x \in D |-> IF x \in E THEN Some(DocString(x)) ELSE None]
             IN /\ call' = Some([types |-> types, docs |-> docs])
                /\ res' = Some(documentation_impl(Unwrap(spec), types, docs))
    /\ phase' = "documented"
    /\ UNCHANGED <<builder, spec>>

NextDoc ==
    \/ \E name \in DocNames : CallRequired(name)
    \/ \E name \in DocNames : CallOptional(name)
    \/ \E name \in DocNames : CallDefaulted(name)
    \/ CallArgs
    \/ CallKwargs
    \/ CallNoMorePositionalOnlyArgs
    \/ CallNoMorePositionalArgs
    \/ CallFinish
    \/ CallParametersStr
    \/ CallDocumentation

SpecDoc == Init /\ [][NextDoc]_vars

----------------------------------------------------------------------------
(* Vocabulary of the properties: the bind under examination, and what its   *)
(* call supplies, read off the call and the signature alone.                *)

Bound == phase = "bound"
S == Unwrap(spec)
A == Unwrap(call)
R == Unwrap(res)
N == len(S)

Succeeded == R.err = None
FailedWith(kind) == IsSome(R.err) /\ Unwrap(R.err).kind = kind

IsRegular(i) == S.param_kinds[i + 1].kind \in {"Required", "Optional", "Defaulted"}

StarOk == A.args = None \/ Unwrap(A.args).iterable
StarElems == IF IsSome(A.args) /\ Unwrap(A.args).iterable
             THEN Unwrap(A.args).elems ELSE <<>>
\* The positional values of the call: explicit ones, then the splatted ones
AllPos == A.pos \o StarElems
\* Parameter i receives a positional value
PosFilled(i) == i < Min(Len(AllPos), S.indices.num_positional)
\* Parameter i receives the value of a named argument
NamedTo(i) ==
    \E j \in 1..Len(A.names) :
        A.names[j] \in DOMAIN S.names /\ S.names[A.names[j]] = i
KwEntries == IF IsSome(A.kwargs) /\ Unwrap(A.kwargs).isdict
             THEN Unwrap(A.kwargs).entries ELSE <<>>
\* Parameter i receives the value of a **kwargs entry
KwTo(i) ==
    \E j \in 1..Len(KwEntries) :
        /\ KwEntries[j].key.isstr
        /\ KwEntries[j].key.s \in DOMAIN S.names
        /\ S.names[KwEntries[j].key.s] = i
SuppliedTo(i) == PosFilled(i) \/ NamedTo(i) \/ KwTo(i)
\* Keyword names of the call that the name map does not hold
UnknownNamed == {A.names[j] : j \in 1..Len(A.names)} \ DOMAIN S.names
UnknownKw ==
    {KwEntries[j].key.s : j \in {k \in 1..Len(KwEntries) : KwEntries[k].key.isstr}}
        \ DOMAIN S.names
\* The positional values no positional slot takes
Overflow ==
    SubSeq(AllPos, Min(Len(AllPos), S.indices.num_positional) + 1, Len(AllPos))

\* The phases of collect_slow up to and including the **kwargs splat did not fail
ChannelsOk ==
    Succeeded \/ Unwrap(R.err).kind \in
        {"MissingParameter", "ExtraPositionalArg", "ExtraNamedArg"}

----------------------------------------------------------------------------
\* C1: for every call on the fast path of collect_inline (pos.len() ==
\* num_positional == N, no named arguments, no *args, no **kwargs),
\* collect_slow on the same call and fresh slots succeeds too and leaves the
\* same contents in every slot as the bind that took the fast path.
C1_FastPathAgreesWithSlowPath ==
    (Bound /\ fast_path(S, A)) =>
        LET slow == collect_slow(S, A, new_slots(N))
        IN /\ Succeeded
           /\ slow.err = None
           /\ slow.slots = R.slots

C1_Witness == Bound /\ fast_path(S, A) /\ N = 2 /\ Succeeded

\* C2: after a successful bind into fresh slots, slot i < N is empty exactly
\* when parameter i is Optional and no channel supplied a value for it; the
\* Args and KWargs sink slots are never empty.
C2_OnlyUnsuppliedOptionalEmpty ==
    (Bound /\ Succeeded) =>
        \A i \in 0..(N - 1) :
            /\ (R.slots[i + 1] = None) <=>
                   (S.param_kinds[i + 1].kind = "Optional" /\ ~SuppliedTo(i))
            /\ ~IsRegular(i) => IsSome(R.slots[i + 1])

C2_Witness ==
    /\ Bound /\ Succeeded /\ N = 2
    /\ S.param_kinds[1].kind = "Optional" /\ R.slots[1] = None
    /\ S.param_kinds[2].kind = "KWargs"

----------------------------------------------------------------------------
\* The names of a sequence, each once, in order of first occurrence
RECURSIVE Dedup(_)
Dedup(names) ==
    IF names = <<>> THEN <<>>
    ELSE LET rest == Dedup(SubSeq(names, 1, Len(names) - 1))
             last == names[Len(names)]
         IN IF \E j \in 1..Len(rest) : rest[j] = last THEN rest
            ELSE Append(rest, last)

\* can_fill_with_args on the call's positional count and name set
CanFill == can_fill_with_args_impl(S, Len(A.pos), Dedup(A.names))

\* C3 as stated: whenever bind succeeds on a call with p positional arguments
\* and named arguments with name set Names, can_fill_with_args(p, Names)
\* returns true.
C3_AsStated == (Bound /\ Succeeded) => CanFill

\* A splat that is absent, or present and empty
NoSplatValues ==
    /\ A.args = None \/ StarElems = <<>>
    /\ A.kwargs = None \/ KwEntries = <<>>

\* C3 (amended): whenever bind succeeds on a call whose *args and **kwargs
\* splats are absent or empty, with p positional arguments and named
\* arguments with name set Names, can_fill_with_args(p, Names) returns true.
C3_SuccessImpliesCanFill == (Bound /\ Succeeded /\ NoSplatValues) => CanFill

C3_Witness ==
    /\ Bound /\ Succeeded /\ NoSplatValues
    /\ Len(A.pos) = 1 /\ Len(A.names) = 1 /\ N = 2

\* C4: when a call leaves a Required parameter unsupplied and also carries an
\* unknown keyword with no KWargs sink or a positional overflow with no Args
\* sink, and the phases up to the **kwargs splat did not fail, bind fails with
\* MissingParameter (not with ExtraNamedArg or ExtraPositionalArg).
RequiredMissing ==
    \E i \in 0..(N - 1) : S.param_kinds[i + 1].kind = "Required" /\ ~SuppliedTo(i)
ExtraArguments ==
    \/ S.indices.kwargs = None /\ (UnknownNamed \cup UnknownKw) # {}
    \/ S.indices.args = None /\ Overflow # <<>>

C4_MissingBeforeExtra ==
    (Bound /\ ChannelsOk /\ RequiredMissing /\ ExtraArguments) =>
        FailedWith("MissingParameter")

C4_Witness ==
    /\ Bound /\ ChannelsOk /\ RequiredMissing
    /\ S.indices.kwargs = None /\ UnknownNamed # {}
    /\ S.indices.args = None /\ Overflow # <<>>

\* C5: when a call supplies a parameter both positionally (explicitly or from
\* an iterable *args splat) and by a named argument, bind fails with
\* RepeatedArg, also when a Required parameter is missing or extra arguments
\* are present.
PosNamedCollision == \E i \in 0..(N - 1) : PosFilled(i) /\ NamedTo(i)

C5_CollisionReportedFirst ==
    (Bound /\ StarOk /\ PosNamedCollision) => FailedWith("RepeatedArg")

C5_Witness ==
    /\ Bound /\ StarOk /\ PosNamedCollision
    /\ RequiredMissing
    /\ ExtraArguments
    /\ FailedWith("RepeatedArg")

----------------------------------------------------------------------------
\* The j-th key of the **kwargs mapping is a string that names a parameter of
\* the name map whose slot a positional value, a *args element or a named
\* argument has filled, or that a named argument has put in the overflow
KeyRepeated(j) ==
    LET k == KwEntries[j].key
    IN /\ k.isstr
       /\ \/ /\ k.s \in DOMAIN S.names
             /\ PosFilled(S.names[k.s]) \/ NamedTo(S.names[k.s])
          \/ /\ k.s \notin DOMAIN S.names
             /\ k.s \in UnknownNamed

\* C6 as stated: if a key of the **kwargs mapping names a parameter whose slot
\* is already filled, or equals a name a named argument already placed in the
\* overflow mapping, bind fails with RepeatedArg carrying that key.
C6_AsStated ==
    Bound =>
        \A j \in 1..Len(KwEntries) :
            KeyRepeated(j) =>
                R.err = Some(Err("RepeatedArg", KwEntries[j].key.s, 0, <<>>))

\* C6 (amended): if the *args splat (if any) is iterable, no parameter is
\* supplied both positionally and by a named argument, and a key of the
\* **kwargs mapping is the first one, in iteration order, that is not a string
\* or is repeated, then, when that key names a name-map parameter whose slot is
\* already filled or equals a name a named argument already placed in the
\* overflow mapping, bind fails with RepeatedArg carrying that key.
C6_FirstRepeatedKeyReported ==
    (Bound /\ StarOk /\ ~PosNamedCollision) =>
        \A j \in 1..Len(KwEntries) :
            (/\ KeyRepeated(j)
             /\ \A h \in 1..(j - 1) : KwEntries[h].key.isstr /\ ~KeyRepeated(h))
                => R.err = Some(Err("RepeatedArg", KwEntries[j].key.s, 0, <<>>))

\* A repeated unknown name, after an earlier key that is fine
C6_Witness ==
    /\ Bound /\ StarOk /\ ~PosNamedCollision
    /\ Len(KwEntries) = 2
    /\ KwEntries[1].key.isstr /\ ~KeyRepeated(1)
    /\ KeyRepeated(2)
    /\ KwEntries[2].key.s \notin DOMAIN S.names
    /\ FailedWith("RepeatedArg")

\* A **kwargs key that names a parameter a positional value has filled
C6_WitnessDeclared ==
    /\ Bound /\ StarOk /\ ~PosNamedCollision
    /\ \E j \in 1..Len(KwEntries) :
          /\ KeyRepeated(j)
          /\ KwEntries[j].key.s \in DOMAIN S.names
          /\ PosFilled(S.names[KwEntries[j].key.s])
    /\ FailedWith("RepeatedArg")

----------------------------------------------------------------------------
\* Name x is a keyword of the call: a named argument or a **kwargs key
IsKeyword(x) ==
    \/ \E j \in 1..Len(A.names) : A.names[j] = x
    \/ \E j \in 1..Len(KwEntries) : KwEntries[j].key.isstr /\ KwEntries[j].key.s = x

\* The keys of the dict in slot i
DictKeys(i) ==
    LET d == Unwrap(R.slots[i + 1]).items IN {d[j].key : j \in 1..Len(d)}

\* Keyword x took the path of an unknown name: into the KWargs sink, or, with
\* no sink, into the list of ExtraNamedArg
TreatedAsUnknown(x) ==
    IF IsSome(S.indices.kwargs)
    THEN Succeeded /\ x \in DictKeys(Unwrap(S.indices.kwargs))
    ELSE /\ FailedWith("ExtraNamedArg")
         /\ \E j \in 1..Len(Unwrap(R.err).names) : Unwrap(R.err).names[j] = x

\* No phase before the KWargs sink failed
BeforeKwargsSinkOk == Succeeded \/ FailedWith("ExtraNamedArg")

\* C7 as stated: a parameter declared in PosOnly style (index below
\* num_positional_only) is never written from a named argument or a **kwargs
\* entry, and a keyword carrying its name is treated as unknown: it ends up in
\* the KWargs sink, or without a sink bind fails with ExtraNamedArg listing it
\* (absent an earlier-phase error).
C7_AsStated ==
    Bound =>
        \A i \in 0..(S.indices.num_positional_only - 1) :
            /\ \A j \in 1..Len(R.log) :
                   R.log[j].idx = i => R.log[j].val.tag \notin {"named", "kw"}
            /\ (IsKeyword(S.param_names[i + 1]) /\ BeforeKwargsSinkOk)
                   => TreatedAsUnknown(S.param_names[i + 1])

\* The part of C7 the code keeps: the same, for a positional-only parameter
\* whose name no name-addressable parameter shares.
C7_HoldsForUnsharedName ==
    Bound =>
        \A i \in 0..(S.indices.num_positional_only - 1) :
            /\ \A j \in 1..Len(R.log) :
                   R.log[j].idx = i => R.log[j].val.tag \notin {"named", "kw"}
            /\ (/\ S.param_names[i + 1] \notin DOMAIN S.names
                /\ IsKeyword(S.param_names[i + 1])
                /\ BeforeKwargsSinkOk)
                   => TreatedAsUnknown(S.param_names[i + 1])

----------------------------------------------------------------------------
\* C8: the slot of a regular parameter added after args() or
\* no_more_positional_args() (index at or above num_positional) is never
\* written from an explicit positional argument or a *args-splat element, in
\* any bind, failed or not.
C8_NameOnlyNeverFilledByPosition ==
    Bound =>
        \A i \in 0..(N - 1) :
            (i >= S.indices.num_positional /\ IsRegular(i)) =>
                \A j \in 1..Len(R.log) :
                    R.log[j].idx = i => R.log[j].val.tag \notin {"pos", "star"}

C8_Witness ==
    /\ Bound
    /\ \E i \in 0..(N - 1) : i >= S.indices.num_positional /\ IsRegular(i)
    /\ Len(A.pos) > S.indices.num_positional
    /\ StarElems # <<>>

\* C9: with an Args sink, a successful bind leaves in slots[args_index] the
\* tuple of the explicit positional values beyond the first num_positional
\* followed by the *args-splat elements no positional slot took; with no Args
\* sink and such an overflow, bind fails with ExtraPositionalArg whose count is
\* the number of overflow values (absent an earlier-phase error).
C9_ArgsSinkHoldsOverflow ==
    Bound =>
        /\ (IsSome(S.indices.args) /\ Succeeded) =>
               R.slots[Unwrap(S.indices.args) + 1] =
                   Some([tag |-> "tuple", n |-> 0, items |-> Overflow])
        /\ (/\ S.indices.args = None
            /\ Overflow # <<>>
            /\ Succeeded \/ FailedWith("ExtraPositionalArg") \/ FailedWith("ExtraNamedArg"))
               => R.err = Some(Err("ExtraPositionalArg", "", Len(Overflow), <<>>))

C9_Witness ==
    /\ Bound /\ Succeeded /\ IsSome(S.indices.args)
    /\ S.indices.num_positional = 1
    /\ Len(A.pos) = 2 /\ Len(StarElems) = 1
    /\ Len(Overflow) = 2

C9_WitnessNoSink ==
    /\ Bound /\ S.indices.args = None /\ Len(Overflow) = 2
    /\ FailedWith("ExtraPositionalArg")

\* The <<name, value>> pairs of the keywords the name map does not hold
UnknownPairs ==
    {<<A.names[j], A.named[j]>> :
        j \in {h \in 1..Len(A.names) : A.names[h] \notin DOMAIN S.names}}
    \cup
    {<<KwEntries[j].key.s, KwEntries[j].val>> :
        j \in {h \in 1..Len(KwEntries) :
                 KwEntries[h].key.isstr /\ KwEntries[h].key.s \notin DOMAIN S.names}}

C10_WitnessNoSink ==
    /\ Bound /\ S.indices.kwargs = None
    /\ Cardinality(UnknownNamed \cup UnknownKw) = 2
    /\ FailedWith("ExtraNamedArg")


----------------------------------------------------------------------------
\* The values the call's channels supply for parameter i
SuppliedValues(i) ==
    (IF PosFilled(i) THEN {AllPos[i + 1]} ELSE {})
    \cup {A.named[j] : j \in {h \in 1..Len(A.names) :
                                A.names[h] \in DOMAIN S.names /\ S.names[A.names[h]] = i}}
    \cup {KwEntries[j].val : j \in {h \in 1..Len(KwEntries) :
                                /\ KwEntries[h].key.isstr
                                /\ KwEntries[h].key.s \in DOMAIN S.names
                                /\ S.names[KwEntries[h].key.s] = i}}

\* After a successful bind a Defaulted(v) slot holds a supplied value if the
\* call supplied one and v otherwise, and no bind writes a default into a slot
\* the call supplies
DefaultsFillOnlyUnsupplied ==
    /\ Succeeded =>
          \A i \in 0..(N - 1) :
              S.param_kinds[i + 1].kind = "Defaulted" =>
                  /\ IsSome(R.slots[i + 1])
                  /\ IF SuppliedTo(i)
                     THEN Unwrap(R.slots[i + 1]) \in SuppliedValues(i)
                     ELSE R.slots[i + 1] = S.param_kinds[i + 1].val
    /\ \A j \in 1..Len(R.log) :
          R.log[j].val.tag = "default" =>
              /\ ~SuppliedTo(R.log[j].idx)
              /\ S.param_kinds[R.log[j].idx + 1] = Defaulted(R.log[j].val)

\* C11 as stated: after a successful bind the slot of a Defaulted(v) parameter
\* holds the value the call supplied for it if any channel supplied one and
\* exactly v otherwise, a default never overwrites a supplied value, and every
\* bind that leaves a Required parameter unsupplied fails with MissingParameter.
C11_AsStated ==
    Bound =>
        /\ DefaultsFillOnlyUnsupplied
        /\ RequiredMissing => FailedWith("MissingParameter")

\* C11 (amended): the same for Defaulted parameters; a bind that leaves a
\* Required parameter unsupplied never succeeds, and it fails with
\* MissingParameter unless an earlier phase (positional/named clash, *args or
\* **kwargs splat) has already failed.
C11_DefaultOnlyWhenUnsupplied ==
    Bound =>
        /\ DefaultsFillOnlyUnsupplied
        /\ RequiredMissing =>
              /\ ~Succeeded
              /\ ChannelsOk => FailedWith("MissingParameter")

\* One Defaulted parameter supplied by the call, another left to its default
C11_Witness ==
    /\ Bound /\ Succeeded /\ N = 2
    /\ S.param_kinds[1].kind = "Defaulted" /\ SuppliedTo(0)
    /\ S.param_kinds[2].kind = "Defaulted" /\ ~SuppliedTo(1)
    /\ R.slots[2] = Some(DefaultValue(1))

\* A Defaulted parameter is filled, then a Required one is found missing
C11_WitnessMissing ==
    /\ Bound /\ RequiredMissing /\ FailedWith("MissingParameter")
    /\ \E j \in 1..Len(R.log) : R.log[j].val.tag = "default"


----------------------------------------------------------------------------
(* Properties of the builder and of the signatures finish() returns (under *)
(* SpecBuild)                                                              *)

\* finish() has returned a signature
Finished == IsSome(spec)
Building == phase = "building"
\* The builder has not been consumed by finish()
BuilderAlive == phase \in {"building", "panicked"}

\* C12: in every signature finish() returns,
\* 0 <= num_positional_only <= num_positional <= N.
C12_PositionalCountsOrdered ==
    Finished =>
        /\ 0 <= S.indices.num_positional_only
        /\ S.indices.num_positional_only <= S.indices.num_positional
        /\ S.indices.num_positional <= N

\* A positional-only parameter followed by a positional-or-named one
C12_Witness ==
    /\ Finished
    /\ S.indices.num_positional_only = 1
    /\ S.indices.num_positional = 2
    /\ N = 2

\* A signature whose last parameter cannot be given by position
C12_WitnessNameOnly ==
    /\ Finished /\ N = 2
    /\ S.indices.num_positional = 1
    /\ S.param_kinds[2].kind = "Required"

\* C13: in every signature finish() returns, if args_index is Some(a) then
\* a = num_positional and param_kinds[a] is Args.
C13_ArgsIndexIsNumPositional ==
    (Finished /\ IsSome(S.indices.args)) =>
        LET a == Unwrap(S.indices.args)
        IN /\ a = S.indices.num_positional
           /\ a < N
           /\ S.param_kinds[a + 1] = Args

\* *args after one positional parameter
C13_Witness ==
    /\ Finished /\ S.indices.args = Some(1)
    /\ S.indices.num_positional = 1

\* *args followed by a name-only parameter
C13_WitnessThenNamed ==
    /\ Finished /\ S.indices.args = Some(0) /\ N = 2
    /\ S.param_kinds[2].kind = "Required"

\* Every builder operation is rejected on builder b
AllRejected(b) ==
    /\ \A name \in ParamNames :
          /\ required(b, name).panic
          /\ optional(b, name).panic
          /\ defaulted(b, name, DefaultValue(Len(b.params))).panic
    /\ args(b).panic
    /\ kwargs(b).panic
    /\ no_more_positional_args(b).panic
    /\ no_more_positional_only_args(b).panic

C14_WitnessRejected ==
    /\ phase = "panicked" /\ IsSome(builder.kwargs)
    /\ Len(builder.params) < MaxParams

\* C15 as stated: in every signature finish() returns, every parameter with
\* index below num_positional_only has kind Required, Optional or Defaulted
\* and its name is not a key of the name map.
C15_AsStated ==
    Finished =>
        \A i \in 0..(S.indices.num_positional_only - 1) :
            /\ IsRegular(i)
            /\ S.param_names[i + 1] \notin DOMAIN S.names

\* What the code keeps of C15: the kinds, and that the name map never points
\* at a positional-only index
C15_NoMapEntryForPositionalOnlyIndex ==
    Finished =>
        \A i \in 0..(S.indices.num_positional_only - 1) :
            /\ IsRegular(i)
            /\ \A x \in DOMAIN S.names : S.names[x] # i

\* C16: in every signature finish() returns, every regular parameter with
\* index i >= num_positional_only has its name in the name map, mapped to
\* exactly i, and no two such parameters share a name.
C16_NamedParametersMapToTheirIndex ==
    Finished =>
        /\ \A i \in S.indices.num_positional_only..(N - 1) :
              IsRegular(i) =>
                  /\ S.param_names[i + 1] \in DOMAIN S.names
                  /\ S.names[S.param_names[i + 1]] = i
        /\ \A i, j \in S.indices.num_positional_only..(N - 1) :
              (IsRegular(i) /\ IsRegular(j) /\ i # j) =>
                  S.param_names[i + 1] # S.param_names[j + 1]

\* A positional-or-named and a name-only parameter
C16_Witness ==
    /\ Finished /\ N = 2
    /\ S.indices.num_positional_only = 0
    /\ S.indices.num_positional = 1
    /\ IsRegular(0) /\ IsRegular(1)

\* C17 as stated: the builder never accepts a required/optional/defaulted call
\* whose name equals the name of a parameter already added, so the parameters
\* of a builder have pairwise distinct names.
C17_AsStated ==
    BuilderAlive =>
        \A i, j \in 1..Len(builder.params) :
            i # j => builder.params[i].name # builder.params[j].name

\* What the code keeps of C17: a repeated name is rejected when the earlier
\* parameter is name-addressable (its name is in the name map) and the builder
\* is no longer in positional-only style
C17_RejectedWhenInNameMap ==
    Building =>
        \A name \in DOMAIN builder.names :
            builder.current_style # PosOnly =>
                /\ required(builder, name).panic
                /\ optional(builder, name).panic
                /\ defaulted(builder, name, DefaultValue(Len(builder.params))).panic

\* The number of parameters of kind k in a parameter list
CountKind(params, k) ==
    Cardinality({i \in 1..Len(params) : params[i].kind.kind = k})

\* C18: the parameter list of a builder holds at most one Args and at most one
\* KWargs; args() is rejected once args(), no_more_positional_args() or
\* kwargs() was accepted, kwargs() is rejected once kwargs() was accepted, and
\* an accepted required/optional/defaulted adds a parameter of its own kind.
C18_AtMostOneOfEachSink ==
    /\ BuilderAlive =>
          /\ CountKind(builder.params, "Args") <= 1
          /\ CountKind(builder.params, "KWargs") <= 1
    /\ Finished =>
          /\ Cardinality({i \in 1..N : S.param_kinds[i].kind = "Args"}) <= 1
          /\ Cardinality({i \in 1..N : S.param_kinds[i].kind = "KWargs"}) <= 1
    /\ Building =>
          /\ (\/ IsSome(builder.args)
              \/ IsSome(builder.kwargs)
              \/ builder.current_style >= NamedOnly) => args(builder).panic
          /\ IsSome(builder.kwargs) => kwargs(builder).panic
          /\ \A name \in ParamNames :
                \A r \in {required(builder, name), optional(builder, name),
                          defaulted(builder, name, DefaultValue(Len(builder.params)))} :
                    ~r.panic =>
                        /\ Len(r.b.params) = Len(builder.params) + 1
                        /\ r.b.params[Len(r.b.params)].kind.kind
                              \in {"Required", "Optional", "Defaulted"}
                        /\ SubSeq(r.b.params, 1, Len(builder.params)) = builder.params

\* A signature with both sinks
C18_Witness ==
    /\ Finished /\ N = 2
    /\ S.param_kinds[1] = Args /\ S.param_kinds[2] = KWargs


----------------------------------------------------------------------------
(* Properties of parameters_str and documentation (under SpecDoc) *)

Rendered == phase = "rendered"
Documented == phase = "documented"

\* The ParamFmt values parameters_str hands over, in the order of its groups
Handed == R.pos_only \o R.pos_named \o R.args \o R.named_only \o R.kwargs

\* A declared name with a leading `$` removed
WithoutDollar(name) == unwrap_or(strip_prefix(Chars(name), <<"$">>), Chars(name))

\* The name a sink is rendered under, after its stars
SinkName(i) ==
    IF S.param_kinds[i + 1].kind = "Args" THEN <<"a", "r", "g", "s">>
    ELSE <<"k", "w", "a", "r", "g", "s">>

\* The five groups split the parameters, in declaration order, into the
\* positional-only ones, the positional-or-named ones, the Args sink, the
\* name-only ones and the KWargs sink
GroupsSplitDeclarationOrder ==
    /\ ~R.err
    /\ Len(Handed) = N
    /\ Len(R.pos_only) = S.indices.num_positional_only
    /\ Len(R.pos_named) = S.indices.num_positional - S.indices.num_positional_only
    /\ Len(R.args) = Cardinality({i \in 0..(N - 1) : S.param_kinds[i + 1].kind = "Args"})
    /\ Len(R.kwargs) = Cardinality({i \in 0..(N - 1) : S.param_kinds[i + 1].kind = "KWargs"})
    /\ Len(R.named_only) =
          Cardinality({i \in S.indices.num_positional..(N - 1) : IsRegular(i)})
    /\ \A i \in 0..(N - 1) :
          /\ ~IsRegular(i) => Handed[i + 1].name = SinkName(i)
          /\ Handed[i + 1].default =
                IF S.param_kinds[i + 1].kind = "Defaulted" THEN Some("...") ELSE None

\* C19 as stated: the names parameters_str() hands to the renderer are the
\* declared names in declaration order, each with a leading `$` removed, split
\* into the groups positional-only, positional-or-named, *args, name-only and
\* **kwargs.
C19_AsStated ==
    Rendered =>
        /\ GroupsSplitDeclarationOrder
        /\ \A i \in 0..(N - 1) :
              IsRegular(i) => Handed[i + 1].name = WithoutDollar(S.param_names[i + 1])

\* What the code keeps of C19: the same grouping and order, with every
\* regular name handed over as it was declared, a leading `$` included
C19_NamesHandedAsDeclared ==
    Rendered =>
        /\ GroupsSplitDeclarationOrder
        /\ \A i \in 0..(N - 1) :
              IsRegular(i) => Handed[i + 1].name = Chars(S.param_names[i + 1])

\* The value entries of documentation().params, in order
RECURSIVE ValueEntries(_)
ValueEntries(params) ==
    IF params = <<>> THEN <<>>
    ELSE (IF Head(params).kind \in {"Arg", "Args", "Kwargs"}
          THEN <<Head(params)>> ELSE <<>>) \o ValueEntries(Tail(params))

CountEntries(params, kind) ==
    Cardinality({j \in 1..Len(params) : params[j].kind = kind})

\* The DocParam kind of a parameter kind
DocKind(k) ==
    IF k = "Args" THEN "Args" ELSE IF k = "KWargs" THEN "Kwargs" ELSE "Arg"

\* C20: documentation(types, docs).params of a signature with N parameters
\* (given N types) holds exactly N entries of the kinds Arg/Args/Kwargs, one
\* per parameter in declaration order, plus at most one OnlyPosBefore and at
\* most one OnlyNamedAfter, and nothing else.
C20_OneEntryPerParameter ==
    (Documented /\ ~R.panic) =>
        LET vs == ValueEntries(R.params)
        IN /\ Len(vs) = N
           /\ \A i \in 1..N :
                 /\ vs[i].name = S.param_names[i]
                 /\ vs[i].kind = DocKind(S.param_kinds[i].kind)
                 /\ vs[i].typ = A.types[i]
           /\ CountEntries(R.params, "OnlyPosBefore") <= 1
           /\ CountEntries(R.params, "OnlyNamedAfter") <= 1
           /\ Len(R.params) = N + CountEntries(R.params, "OnlyPosBefore")
                                + CountEntries(R.params, "OnlyNamedAfter")

\* Both separators before the second parameter: f(a, /, *, b)
C20_Witness ==
    /\ Documented /\ ~R.panic /\ N = 2
    /\ Len(R.params) = 4
    /\ R.params[2] = OnlyPosBefore
    /\ R.params[3] = OnlyNamedAfter

\* The last `/` of a signature with positional-only parameters alone
C20_WitnessLastSlash ==
    /\ Documented /\ ~R.panic /\ N = 2
    /\ R.params[3] = OnlyPosBefore

\* A signature with both sinks
C20_WitnessSinks ==
    /\ Documented /\ ~R.panic /\ N = 2
    /\ R.params[1].kind = "Args" /\ R.params[2].kind = "Kwargs"


----------------------------------------------------------------------------
\* Parameter i is a regular parameter that can be given by name only
NameOnly(i) == i >= S.indices.num_positional /\ IsRegular(i)
HasNameOnly == \E i \in 0..(N - 1) : NameOnly(i)
FirstNameOnly ==
    CHOOSE i \in 0..(N - 1) : NameOnly(i) /\ \A h \in 0..(i - 1) : ~NameOnly(h)

IsValueEntry(e) == e.kind \in {"Arg", "Args", "Kwargs"}

\* The place in documentation().params of the entry of parameter i
EntryPos(params, i) ==
    CHOOSE j \in 1..Len(params) :
        /\ IsValueEntry(params[j])
        /\ Cardinality({h \in 1..(j - 1) : IsValueEntry(params[h])}) = i

\* C21 as stated: for a signature with at least one name-only regular
\* parameter, documentation() puts an OnlyNamedAfter entry immediately before
\* the entry of the first name-only regular parameter.
C21_AsStated ==
    (Documented /\ ~R.panic /\ HasNameOnly) =>
        LET j == EntryPos(R.params, FirstNameOnly)
        IN j > 1 /\ R.params[j - 1] = OnlyNamedAfter

\* C21 (amended): the same for a signature without an Args sink; with an Args
\* sink the *args entry itself precedes the name-only parameters and
\* documentation() emits no OnlyNamedAfter entry.
C21_StarBeforeFirstNameOnlyWithoutArgs ==
    (Documented /\ ~R.panic /\ HasNameOnly) =>
        IF S.indices.args = None
        THEN LET j == EntryPos(R.params, FirstNameOnly)
             IN j > 1 /\ R.params[j - 1] = OnlyNamedAfter
        ELSE /\ CountEntries(R.params, "OnlyNamedAfter") = 0
             /\ FirstNameOnly = Unwrap(S.indices.args) + 1

\* f(a, /, *, b): the `*` between the `/` and the name-only parameter
C21_Witness ==
    /\ Documented /\ ~R.panic /\ HasNameOnly /\ S.indices.args = None
    /\ N = 2 /\ FirstNameOnly = 1 /\ S.indices.num_positional_only = 1
    /\ R.params[3] = OnlyNamedAfter

\* f(*args, b): a name-only parameter after the Args sink
C21_WitnessArgs ==
    /\ Documented /\ ~R.panic /\ HasNameOnly /\ IsSome(S.indices.args)
    /\ N = 2 /\ Len(R.params) = 2


----------------------------------------------------------------------------
NumPosOnly == S.indices.num_positional_only

\* C26 as stated: documentation() emits OnlyPosBefore immediately before the
\* entry of the first parameter that is not positional-only when
\* 0 < num_positional_only < N, as the last entry when all N > 0 parameters
\* are positional-only, and not at all when num_positional_only = 0.
C26_AsStated ==
    (Documented /\ ~R.panic) =>
        /\ (0 < NumPosOnly /\ NumPosOnly < N) =>
              LET j == EntryPos(R.params, NumPosOnly)
              IN j > 1 /\ R.params[j - 1] = OnlyPosBefore
        /\ (NumPosOnly = N /\ N > 0) => R.params[Len(R.params)] = OnlyPosBefore
        /\ NumPosOnly = 0 => CountEntries(R.params, "OnlyPosBefore") = 0

\* C26 (amended): when 0 < num_positional_only < N, the one OnlyPosBefore
\* directly follows the entry of the last positional-only parameter and
\* precedes the entry of the next parameter, separated from it by the
\* OnlyNamedAfter entry when that parameter is a name-only regular one; it is
\* the last entry when all N > 0 parameters are positional-only; there is none
\* when num_positional_only = 0.
C26_SlashAfterLastPositionalOnly ==
    (Documented /\ ~R.panic) =>
        /\ (0 < NumPosOnly /\ NumPosOnly < N) =>
              LET j == EntryPos(R.params, NumPosOnly)
                  k == EntryPos(R.params, NumPosOnly - 1) + 1
              IN /\ R.params[k] = OnlyPosBefore
                 /\ CountEntries(R.params, "OnlyPosBefore") = 1
                 /\ IF NameOnly(NumPosOnly)
                    THEN j = k + 2 /\ R.params[k + 1] = OnlyNamedAfter
                    ELSE j = k + 1
        /\ (NumPosOnly = N /\ N > 0) =>
              /\ R.params[Len(R.params)] = OnlyPosBefore
              /\ CountEntries(R.params, "OnlyPosBefore") = 1
        /\ NumPosOnly = 0 => CountEntries(R.params, "OnlyPosBefore") = 0

\* f(a, /, b)
C26_Witness ==
    /\ Documented /\ ~R.panic /\ N = 2
    /\ NumPosOnly = 1 /\ S.indices.num_positional = 2
    /\ Len(R.params) = 3 /\ R.params[2] = OnlyPosBefore

\* f(a, /)
C26_WitnessLast ==
    /\ Documented /\ ~R.panic /\ N = 1 /\ NumPosOnly = 1
    /\ Len(R.params) = 2 /\ R.params[2] = OnlyPosBefore

\* f(a, /, *args): the `/` before a sink
C26_WitnessBeforeSink ==
    /\ Documented /\ ~R.panic /\ N = 2 /\ NumPosOnly = 1
    /\ S.param_kinds[2] = Args
    /\ R.params[2] = OnlyPosBefore

\* No positional-only parameter
C26_WitnessNone ==
    /\ Documented /\ ~R.panic /\ N = 2 /\ NumPosOnly = 0
    /\ CountEntries(R.params, "OnlyPosBefore") = 0

----------------------------------------------------------------------------
\* The indices of the five groups of parameters_str, one group after the other
GroupIndices ==
    LET g == parameters_str_indices(S)
    IN g.pos_only \o g.pos_named \o g.args \o g.named_only \o g.kwargs

\* C29: on every signature finish() returns, parameters_str() takes neither
\* inconsistency branch, and the five index groups it renders
\* (0..num_positional_only, num_positional_only..num_positional, args_index,
\* the name-only range, kwargs_index) hold every index 0..N-1 exactly once, in
\* increasing order; each group handed to the renderer is pf over its indices.
C29_GroupsCoverEveryIndexOnce ==
    Rendered =>
        LET g == parameters_str_indices(S)
        IN /\ ~R.err
           /\ GroupIndices = [i \in 1..N |-> i - 1]
           /\ R.pos_only = [j \in 1..Len(g.pos_only) |-> pf(S, g.pos_only[j])]
           /\ R.pos_named = [j \in 1..Len(g.pos_named) |-> pf(S, g.pos_named[j])]
           /\ R.args = [j \in 1..Len(g.args) |-> pf(S, g.args[j])]
           /\ R.named_only = [j \in 1..Len(g.named_only) |-> pf(S, g.named_only[j])]
           /\ R.kwargs = [j \in 1..Len(g.kwargs) |-> pf(S, g.kwargs[j])]

\* f(*args, **kwargs)
C29_Witness ==
    /\ Rendered /\ ~R.err /\ N = 2
    /\ S.indices.args = Some(0) /\ S.indices.kwargs = Some(1)
    /\ Len(R.args) = 1 /\ Len(R.kwargs) = 1

\* f(a, /, *, b)
C29_WitnessRegular ==
    /\ Rendered /\ ~R.err /\ N = 2
    /\ Len(R.pos_only) = 1 /\ Len(R.named_only) = 1

\* f(a, *args)
C29_WitnessArgsLast ==
    /\ Rendered /\ ~R.err /\ N = 2
    /\ Len(R.pos_named) = 1 /\ Len(R.args) = 1

----------------------------------------------------------------------------
(* The style of the builder (under SpecBuild) *)

\* The outcomes of required, optional and defaulted on builder b
AddOutcomes(b) ==
    UNION {{required(b, name), optional(b, name),
            defaulted(b, name, DefaultValue(Len(b.params)))} : name \in ParamNames}

\* C25: the style of the builder starts at PosOnly and, in the order
\* PosOnly < PosOrNamed < NamedOnly < NoMore, never decreases over accepted
\* operations; no_more_positional_only_args() is accepted only in PosOnly,
\* and an accepted required/optional/defaulted leaves the style unchanged.
C25_StyleMonotonic ==
    /\ builder.current_style = PosOnly
    /\ [](Building =>
            /\ builder.current_style \in {PosOnly, PosOrNamed, NamedOnly, NoMore}
            /\ ~no_more_positional_only_args(builder).panic
                  <=> builder.current_style = PosOnly
            /\ \A r \in AddOutcomes(builder) :
                  ~r.panic => r.b.current_style = builder.current_style
            /\ \A r \in {args(builder), kwargs(builder),
                          no_more_positional_args(builder),
                          no_more_positional_only_args(builder)} :
                  ~r.panic => r.b.current_style >= builder.current_style)
    /\ [][(phase = "building" /\ phase' = "building") =>
             builder'.current_style >= builder.current_style]_vars

\* A positional-only parameter, no_more_positional_args(), then a name-only
\* parameter: the style went from PosOnly to NamedOnly and stayed there
C25_Witness ==
    /\ Building /\ builder.current_style = NamedOnly
    /\ builder.args = None
    /\ Len(builder.params) = 2
    /\ builder.positional_only = 1 /\ builder.positional = 1

\* The style has reached NoMore after a parameter in positional-or-named style
C25_WitnessNoMore ==
    /\ Building /\ builder.current_style = NoMore
    /\ Len(builder.params) = 2
    /\ builder.positional_only = 0 /\ builder.positional = 1

----------------------------------------------------------------------------
(* Further properties of bind (under Spec) *)

\* The test `next_position > lowest_name` on the locals the bind ended with
\* (their values at the test when the *args splat, if any, is iterable)
ClashTestTrue == R.next_position > R.lowest_name

\* C23: with an iterable (or absent) *args splat, the test
\* `next_position > lowest_name` is true exactly when some parameter received
\* both a positional value (explicit or from the *args splat) and a named
\* argument; bind then fails there with RepeatedArg carrying the name of a
\* parameter that received both, and every other RepeatedArg comes from a
\* repeated key of the **kwargs splat.
C23_ClashTestExact ==
    (Bound /\ StarOk) =>
        /\ ClashTestTrue <=> PosNamedCollision
        /\ ClashTestTrue =>
              /\ FailedWith("RepeatedArg")
              /\ \E i \in 0..(N - 1) :
                    /\ PosFilled(i) /\ NamedTo(i)
                    /\ Unwrap(R.err).name = S.param_names[i + 1]
              /\ \A j \in 1..Len(R.log) : R.log[j].val.tag # "kw"
        /\ (~ClashTestTrue /\ FailedWith("RepeatedArg")) =>
              \E j \in 1..Len(KwEntries) :
                  KeyRepeated(j) /\ Unwrap(R.err).name = KwEntries[j].key.s

\* Two parameters filled by position (one from the splat), the first of them
\* named as well
C23_Witness ==
    /\ Bound /\ StarOk /\ PosNamedCollision /\ N = 2
    /\ Len(A.pos) = 1 /\ Len(StarElems) = 1
    /\ NamedTo(0) /\ ~NamedTo(1)
    /\ FailedWith("RepeatedArg")

\* The named parameter directly follows the last one filled by position
C23_WitnessAdjacent ==
    /\ Bound /\ StarOk /\ ~PosNamedCollision /\ Succeeded
    /\ R.next_position = 1 /\ R.lowest_name = 1

\* The call has no *args and no **kwargs splat, and no name twice
NoSplatDistinctNames ==
    /\ A.args = None
    /\ A.kwargs = None
    /\ \A j, h \in 1..Len(A.names) : j # h => A.names[j] # A.names[h]

\* C27: for a call without *args and **kwargs splats whose named arguments
\* have pairwise distinct names, can_fill_with_args(p, names) is true if and
\* only if bind succeeds on the call (p positional arguments, those names).
C27_CanFillIffBindSucceeds ==
    (Bound /\ NoSplatDistinctNames) =>
        (can_fill_with_args_impl(S, Len(A.pos), A.names) <=> Succeeded)

\* A positional value and two names, one of them for the KWargs sink
C27_Witness ==
    /\ Bound /\ NoSplatDistinctNames /\ Succeeded
    /\ Len(A.pos) = 1 /\ Len(A.names) = 2 /\ N = 2
    /\ can_fill_with_args_impl(S, Len(A.pos), A.names)

\* A parameter given by position and by name: neither succeeds
C27_WitnessClash ==
    /\ Bound /\ NoSplatDistinctNames /\ PosNamedCollision
    /\ ~Succeeded
    /\ ~can_fill_with_args_impl(S, Len(A.pos), A.names)

\* A Required parameter left out: neither succeeds
C27_WitnessMissing ==
    /\ Bound /\ NoSplatDistinctNames /\ FailedWith("MissingParameter")
    /\ Len(A.names) = 1
    /\ ~can_fill_with_args_impl(S, Len(A.pos), A.names)

\* The call with the elements of its *args splat passed as explicit
\* positional arguments after its own, and no *args splat
Unsplatted == [A EXCEPT !.pos = A.pos \o StarElems, !.args = None]

\* C28: bind with explicit positionals P and an iterable *args splat yielding
\* A has the same outcome as bind with the explicit positionals P followed by
\* A and no *args splat (same named arguments and **kwargs splat): both
\* succeed with the same slot contents, or both fail with the same error.
C28_SplatIsPositional ==
    (Bound /\ IsSome(A.args) /\ StarOk) =>
        LET r2 == collect_inline_impl(S, Unsplatted, new_slots(N))
        IN /\ Succeeded <=> r2.err = None
           /\ Succeeded => r2.slots = R.slots
           /\ ~Succeeded => r2.err = R.err

\* One parameter filled by an explicit value, the next by a splat element
C28_Witness ==
    /\ Bound /\ IsSome(A.args) /\ StarOk /\ Succeeded
    /\ Len(A.pos) = 1 /\ Len(StarElems) = 1
    /\ S.indices.num_positional = 2

\* Splat elements overflow into the Args sink, after a named argument
C28_WitnessSink ==
    /\ Bound /\ IsSome(A.args) /\ StarOk /\ Succeeded
    /\ Len(StarElems) = 2 /\ Len(A.names) = 1
    /\ S.indices.args = Some(0)

\* Splat elements with no slot and no sink: both calls fail alike
C28_WitnessExtra ==
    /\ Bound /\ IsSome(A.args) /\ StarOk
    /\ Len(StarElems) = 2 /\ FailedWith("ExtraPositionalArg")

\* Parameter i is Required and no channel of the call supplies it
MissingAt(i) == S.param_kinds[i + 1].kind = "Required" /\ ~SuppliedTo(i)
FirstMissing ==
    CHOOSE i \in 0..(N - 1) : MissingAt(i) /\ \A h \in 0..(i - 1) : ~MissingAt(h)

\* C30: when bind fails with MissingParameter, the name reported is that of
\* the lowest-indexed Required parameter whose slot is empty once the four
\* argument channels were consumed, and the bind has filled no Defaulted
\* parameter of a higher index with its default.
C30_FirstMissingReported ==
    (Bound /\ FailedWith("MissingParameter")) =>
        /\ RequiredMissing
        /\ R.slots[FirstMissing + 1] = None
        /\ Unwrap(R.err).name = S.param_names[FirstMissing + 1]
        /\ \A j \in 1..Len(R.log) :
              R.log[j].val.tag = "default" => R.log[j].idx < FirstMissing
        /\ \A i \in (FirstMissing + 1)..(N - 1) :
              (S.param_kinds[i + 1].kind = "Defaulted" /\ ~SuppliedTo(i))
                  => R.slots[i + 1] = None

\* A missing Required parameter before an unsupplied Defaulted one
C30_Witness ==
    /\ Bound /\ FailedWith("MissingParameter") /\ N = 2
    /\ MissingAt(0)
    /\ S.param_kinds[2].kind = "Defaulted" /\ ~SuppliedTo(1)
    /\ R.slots[2] = None

\* Two Required parameters of different names, both missing
C30_WitnessTwoMissing ==
    /\ Bound /\ FailedWith("MissingParameter") /\ N = 2
    /\ MissingAt(0) /\ MissingAt(1)
    /\ S.param_names[1] # S.param_names[2]

\* A supplied Required parameter, then the missing one
C30_WitnessSecondMissing ==
    /\ Bound /\ FailedWith("MissingParameter") /\ N = 2
    /\ S.param_kinds[1].kind = "Required" /\ NamedTo(0)
    /\ MissingAt(1)

\* Some name the name map does not hold occurs twice among the named arguments
UnknownNameTwice ==
    \E j, h \in 1..Len(A.names) :
        j < h /\ A.names[j] = A.names[h] /\ A.names[j] \notin DOMAIN S.names

\* C24 as stated: when a name the signature does not declare occurs twice
\* among the named arguments of a call, bind fails with RepeatedArg.
C24_AsStated ==
    (Bound /\ UnknownNameTwice) => FailedWith("RepeatedArg")

\* What the code does with such a call when it succeeds: the KWargs sink
\* holds the name once, with the value of its last occurrence
C24_LastValueKept ==
    (Bound /\ UnknownNameTwice /\ Succeeded) =>
        /\ IsSome(S.indices.kwargs)
        /\ LET d == Unwrap(R.slots[Unwrap(S.indices.kwargs) + 1]).items
           IN \A h \in 1..Len(A.names) :
                 (/\ A.names[h] \notin DOMAIN S.names
                  /\ \A g \in (h + 1)..Len(A.names) : A.names[g] # A.names[h])
                    => \E j \in 1..Len(d) :
                          /\ d[j] = [key |-> A.names[h], val |-> A.named[h]]
                          /\ \A g \in 1..Len(d) : d[g].key = A.names[h] => g = j

\* C31: in every signature finish() returns, every value of the name map is
\* an index i with num_positional_only <= i < N whose kind is Required,
\* Optional or Defaulted (never a positional-only parameter, never the Args or
\* KWargs sink); and no bind writes the value of a named argument or of a
\* **kwargs entry into a positional-only slot or into a sink slot.
C31_NameMapPointsAtNamedRegular ==
    /\ Finished =>
          \A x \in DOMAIN S.names :
              /\ S.indices.num_positional_only <= S.names[x]
              /\ S.names[x] < N
              /\ IsRegular(S.names[x])
              /\ Some(S.names[x]) # S.indices.args
              /\ Some(S.names[x]) # S.indices.kwargs
    /\ Bound =>
          \A j \in 1..Len(R.log) :
              R.log[j].val.tag \in {"named", "kw"} =>
                  /\ R.log[j].idx >= S.indices.num_positional_only
                  /\ R.log[j].idx < N
                  /\ IsRegular(R.log[j].idx)

\* f(a, /, b) bound with a named argument that reaches b
C31_Witness ==
    /\ Bound /\ N = 2 /\ S.indices.num_positional_only = 1
    /\ DOMAIN S.names # {}
    /\ \E j \in 1..Len(R.log) : R.log[j].val.tag = "named" /\ R.log[j].idx = 1

\* f(a, **kwargs) bound with a **kwargs entry that reaches a and one that
\* goes to the sink
C31_WitnessSink ==
    /\ Bound /\ Succeeded /\ N = 2 /\ S.param_kinds[2] = KWargs
    /\ DOMAIN S.names # {}
    /\ \E j \in 1..Len(R.log) : R.log[j].val.tag = "kw" /\ R.log[j].idx = 0
    /\ UnknownKw # {}

\* A positional-only parameter whose name a keyword of the call carries
C31_WitnessPositionalOnlyName ==
    /\ Bound /\ N = 2 /\ S.indices.num_positional_only = 2
    /\ IsKeyword(S.param_names[1])

----------------------------------------------------------------------------
(* Properties of a bind into the caller's slots (under SpecFrame) *)

Collected == phase = "collected"
\* The slots before the bind
Slots0 == A.slots

\* C22: a bind, successful or failing, leaves the signature (names, kinds,
\* name map, indices) as it was, writes only slots of index below N, and
\* leaves every slot of index N or above with its previous contents.
C22_BindWritesOnlySlotsBelowN ==
    /\ [](Collected =>
            /\ Len(R.slots) = Len(Slots0)
            /\ \A i \in N..(Len(Slots0) - 1) : R.slots[i + 1] = Slots0[i + 1]
            /\ \A j \in 1..Len(R.log) : R.log[j].idx < N
            /\ \A i \in 0..(N - 1) :
                  R.slots[i + 1] # Slots0[i + 1] =>
                      \E j \in 1..Len(R.log) : R.log[j].idx = i)
    /\ [][phase' = "collected" => spec' = spec /\ builder' = builder]_vars

\* A successful bind that fills a slot and leaves a used slot beyond N alone
C22_Witness ==
    /\ Collected /\ Succeeded /\ N = 1
    /\ Len(Slots0) = 2 /\ Slots0[2] = Some(OldValue(1))
    /\ Len(A.arguments.pos) = 1
    /\ R.slots[1] # Slots0[1]

\* A failing bind that has written a slot before it failed
C22_WitnessFailing ==
    /\ Collected /\ ~Succeeded /\ N = 2
    /\ Len(Slots0) = 3 /\ Slots0[3] = Some(OldValue(2))
    /\ R.slots[1] # Slots0[1]

\* More explicit positional values than the signature has parameters
C22_WitnessOverflow ==
    /\ Collected /\ Len(A.arguments.pos) > N /\ Len(Slots0) > N
    /\ IsSome(Slots0[N + 1])
====
